---- MODULE Spec2Model ----
(***************************************************************************)
(* Yaco: a dict-like Node with attribute access and auto-generated keys,   *)
(* and PolyYaco: a stack of Yaco layers read through a cached merge and    *)
(* written at the top layer (src/Yaco/__init__.py).                        *)
(*                                                                         *)
(* Python objects live in a heap of cells, so that reference semantics     *)
(* (a Node returned by a read is the Node stored in its parent, a list is  *)
(* shared between the mapping it came from and the Node it is stored in)   *)
(* are those of the source.  A dict keeps its keys in insertion order.     *)
(***************************************************************************)
EXTENDS Integers, Sequences, FiniteSets, TLC

VARIABLES heap, node, last, prev, pre, was, steps,
          py, base, rawfiles, fs, filenames, yacs, dirty, merged, recomputes

vars == <<heap, node, last, prev, pre, was, steps,
          py, base, rawfiles, fs, filenames, yacs, dirty, merged, recomputes>>

(***************************************************************************)
(* Values: None, a scalar (an integer, 0 is falsy), a string (only used as *)
(* an element of the '_private' list) or a reference to a heap cell.       *)
(***************************************************************************)
NoneV == [t |-> "none", v |-> 0]
S(n) == [t |-> "s", v |-> n]
Str(s) == [t |-> "str", v |-> s]
R(i) == [t |-> "r", v |-> i]

EmptyMap == [k \in {} |-> NoneV]

\* A cell is a Yaco, a plain dict or a list.
YacoCell == [kind |-> "yaco", order |-> << >>, map |-> EmptyMap, items |-> << >>]
DictCell == [kind |-> "dict", order |-> << >>, map |-> EmptyMap, items |-> << >>]
ListCell(items) == [kind |-> "list", order |-> << >>, map |-> EmptyMap, items |-> items]

IsRef(v) == v.t = "r"
isdict(h, v) == IsRef(v) /\ h[v.v].kind \in {"yaco", "dict"}
isYaco(h, v) == IsRef(v) /\ h[v.v].kind = "yaco"
islist(h, v) == IsRef(v) /\ h[v.v].kind = "list"

\* Python truth value: None, 0, an empty dict and an empty list are falsy.
Truthy(h, v) ==
    CASE v.t = "none" -> FALSE
      [] v.t = "s" -> v.v # 0
      [] v.t = "str" -> TRUE
      [] v.t = "r" -> IF h[v.v].kind = "list" THEN Len(h[v.v].items) > 0
                      ELSE DOMAIN h[v.v].map # {}

\* Keys.  A key with a '.' is split at its first '.' by key.split('.', 1).
DottedKeys == {"a.b", "b.c", "a.b.c"}
HasDot(key) == key \in DottedKeys
SplitK1(key) == CASE key = "a.b" -> "a" [] key = "b.c" -> "b" [] key = "a.b.c" -> "a"
SplitK2(key) == CASE key = "a.b" -> "b" [] key = "b.c" -> "c" [] key = "a.b.c" -> "b.c"
\* k[0] == '_'
PrivatePrefix(key) == key \in {"_c", "_private"}

\* dict.get(key, None), key in dict, dict.__setitem__, dict.__delitem__
dict_get(h, n, key) == IF key \in DOMAIN h[n].map THEN h[n].map[key] ELSE NoneV
dict_contains(h, n, key) == key \in DOMAIN h[n].map
dict_setitem(h, n, key, value) ==
    [h EXCEPT ![n] =
        [@ EXCEPT !.map = [k \in DOMAIN @ \cup {key} |-> IF k = key THEN value ELSE @[k]],
                  !.order = IF key \in DOMAIN h[n].map THEN @ ELSE Append(@, key)]]

\* list(d.items()): the (key, value) pairs in insertion order, as a snapshot.
dict_items(h, n) == [i \in 1..Len(h[n].order) |-> <<h[n].order[i], h[n].map[h[n].order[i]]>>]

(***************************************************************************)
(* Literals: the mappings, lists and scalars a caller writes, and the      *)
(* documents a file holds.  D(<<key, lit>> pairs), L(<<lits>>) or a value. *)
(***************************************************************************)
D(pairs) == [t |-> "d", v |-> pairs]
L(lits) == [t |-> "l", v |-> lits]

RECURSIVE AllocLit(_, _)
RECURSIVE AllocPairs(_, _, _)
RECURSIVE AllocElems(_, _, _)
\* Build the Python object a literal denotes: [h |-> heap, v |-> value].
AllocLit(h, lit) ==
    CASE lit.t = "d" ->
            LET n == Len(h) + 1 IN
            [h |-> AllocPairs(Append(h, DictCell), n, lit.v), v |-> R(n)]
      [] lit.t = "l" ->
            LET n == Len(h) + 1 IN
            [h |-> AllocElems(Append(h, ListCell(<< >>)), n, lit.v), v |-> R(n)]
      [] OTHER -> [h |-> h, v |-> lit]
AllocPairs(h, n, pairs) ==
    IF pairs = << >> THEN h
    ELSE LET r == AllocLit(h, pairs[1][2]) IN
         AllocPairs(dict_setitem(r.h, n, pairs[1][1], r.v), n, Tail(pairs))
AllocElems(h, n, lits) ==
    IF lits = << >> THEN h
    ELSE LET r == AllocLit(h, lits[1]) IN
         AllocElems([r.h EXCEPT ![n].items = Append(@, r.v)], n, Tail(lits))

\* The structure a value denotes, as Python's == compares it: a dict by its
\* keys and values (a Yaco is a dict), a list by its elements.
RECURSIVE TreeOf(_, _)
TreeOf(h, v) ==
    IF ~IsRef(v) THEN v
    ELSE IF h[v.v].kind = "list"
         THEN [t |-> "l", v |-> [i \in 1..Len(h[v.v].items) |-> TreeOf(h, h[v.v].items[i])]]
         ELSE [t |-> "d", v |-> [k \in DOMAIN h[v.v].map |-> TreeOf(h, h[v.v].map[k])]]

(***************************************************************************)
(* class Yaco(dict)                                                        *)
(***************************************************************************)
RECURSIVE update(_, _, _)
RECURSIVE update_items(_, _, _)
RECURSIVE Yaco_init(_, _)
RECURSIVE _list_parser(_, _)
RECURSIVE _list_parser_from(_, _, _)

\* Yaco(data) for a dict: a new empty Yaco, then self.update(data).
Yaco_init(h, data) ==
    LET n == Len(h) + 1 IN
    [h |-> update(Append(h, YacoCell), n, data), v |-> R(n)]

\* Yaco._list_parser: replaces, in place, every dict of the list by a Yaco
\* built from it, descends into nested lists, and returns the same list.
_list_parser(h, old_list) == _list_parser_from(h, old_list, 1)
_list_parser_from(h, old_list, i) ==
    IF i > Len(h[old_list].items) THEN h
    ELSE LET item == h[old_list].items[i] IN
         IF isdict(h, item)
         THEN LET r == Yaco_init(h, item) IN
              _list_parser_from([r.h EXCEPT ![old_list].items[i] = r.v], old_list, i + 1)
         ELSE IF islist(h, item)
         THEN _list_parser_from(_list_parser(h, item.v), old_list, i + 1)
         ELSE _list_parser_from(h, old_list, i + 1)

\* update_step with a map of data replacing the Node at key instead of
\* being merged into it.
update_step_replaces(h, n, key, value) ==
    IF isdict(h, value)
    THEN LET r == Yaco_init(h, value) IN dict_setitem(r.h, n, key, r.v)
    ELSE IF islist(h, value)
    THEN dict_setitem(_list_parser(h, value.v), n, key, value)
    ELSE dict_setitem(h, n, key, value)

\* One turn of the loop of Yaco.update, for the pair (key, value).
update_step(h, n, key, value) ==
    LET old_value == dict_get(h, n, key) IN
    IF isdict(h, value)
    THEN IF Truthy(h, old_value) /\ isYaco(h, old_value)
         THEN update(h, old_value.v, value)
         ELSE LET r == Yaco_init(h, value) IN dict_setitem(r.h, n, key, r.v)
    ELSE IF islist(h, value)
    THEN dict_setitem(_list_parser(h, value.v), n, key, value)
    ELSE dict_setitem(h, n, key, value)

update_items(h, n, items) ==
    IF items = << >> THEN h
    ELSE update_items(update_step(h, n, items[1][1], items[1][2]), n, Tail(items))

\* Yaco.update(data): data is None or a reference to a dict.
update(h, n, data) ==
    IF ~Truthy(h, data) THEN h
    ELSE update_items(h, n, dict_items(h, data.v))

RECURSIVE soft_update(_, _, _)
RECURSIVE soft_update_items(_, _, _)
\* soft_update_step with the test of the old value of a scalar left out.
soft_update_step_overwrites(h, n, key, value) ==
    LET old_value == dict_get(h, n, key) IN
    IF isdict(h, value)
    THEN LET h1 == IF Truthy(h, old_value) /\ isYaco(h, old_value)
                   THEN soft_update(h, old_value.v, value)
                   ELSE h
         IN  IF Truthy(h1, old_value)
             THEN h1
             ELSE LET r == Yaco_init(h1, value) IN dict_setitem(r.h, n, key, r.v)
    ELSE IF islist(h, value)
    THEN IF ~Truthy(h, old_value)
         THEN dict_setitem(_list_parser(h, value.v), n, key, value)
         ELSE h
    ELSE dict_setitem(h, n, key, value)

\* One turn of the loop of Yaco.soft_update.
soft_update_step(h, n, key, value) ==
    LET old_value == dict_get(h, n, key) IN
    IF isdict(h, value)
    THEN LET h1 == IF Truthy(h, old_value) /\ isYaco(h, old_value)
                   THEN soft_update(h, old_value.v, value)
                   ELSE h
         IN  IF Truthy(h1, old_value)
             THEN h1
             ELSE LET r == Yaco_init(h1, value) IN dict_setitem(r.h, n, key, r.v)
    ELSE IF islist(h, value)
    THEN IF ~Truthy(h, old_value)
         THEN dict_setitem(_list_parser(h, value.v), n, key, value)
         ELSE h
    ELSE IF ~Truthy(h, old_value)
         THEN dict_setitem(h, n, key, value)
         ELSE h

soft_update_items(h, n, items) ==
    IF items = << >> THEN h
    ELSE soft_update_items(soft_update_step(h, n, items[1][1], items[1][2]), n, Tail(items))

soft_update(h, n, data) ==
    IF ~Truthy(h, data) THEN h
    ELSE soft_update_items(h, n, dict_items(h, data.v))

\* Yaco.__setattr__(key, value)
Yaco__setattr__(h, n, key, value) ==
    LET old_value == dict_get(h, n, key) IN
    IF isdict(h, value)
    THEN IF isYaco(h, old_value)
         THEN update(h, old_value.v, value)
         ELSE IF isYaco(h, value)
         THEN dict_setitem(h, n, key, value)
         ELSE LET r == Yaco_init(h, value) IN dict_setitem(r.h, n, key, r.v)
    ELSE IF islist(h, value)
    THEN dict_setitem(_list_parser(h, value.v), n, key, value)
    ELSE dict_setitem(h, n, key, value)

\* Yaco.__getattr__ with the new Yaco returned but not stored.
Yaco__getattr__unstored(h, n, key) ==
    IF dict_contains(h, n, key)
    THEN [h |-> h, v |-> h[n].map[key], err |-> ""]
    ELSE [h |-> Append(h, YacoCell), v |-> R(Len(h) + 1), err |-> ""]

\* Yaco.__getattr__(key): the stored value, or a new empty Yaco that is
\* stored at key and returned.
Yaco__getattr__(h, n, key) ==
    IF dict_contains(h, n, key)
    THEN [h |-> h, v |-> h[n].map[key], err |-> ""]
    ELSE LET rv == Len(h) + 1 IN
         [h |-> dict_setitem(Append(h, YacoCell), n, key, R(rv)), v |-> R(rv), err |-> ""]

\* Yaco.has_key(key)
Yaco_has_key(h, n, key) == key \in {h[n].order[i] : i \in 1..Len(h[n].order)}

RECURSIVE Yaco__getitem__(_, _, _)
\* Yaco.__getitem__(key): as __getattr__, except that a key with a '.' is a
\* path.  Indexing a scalar, None or a list with a string raises TypeError.
Yaco__getitem__(h, n, key) ==
    IF ~HasDot(key) THEN Yaco__getattr__(h, n, key)
    ELSE LET r == Yaco__getattr__(h, n, SplitK1(key)) IN
         IF isYaco(r.h, r.v) THEN Yaco__getitem__(r.h, r.v.v, SplitK2(key))
         ELSE IF isdict(r.h, r.v)
         THEN IF dict_contains(r.h, r.v.v, SplitK2(key))
              THEN [h |-> r.h, v |-> r.h[r.v.v].map[SplitK2(key)], err |-> ""]
              ELSE [h |-> r.h, v |-> NoneV, err |-> "KeyError"]
         ELSE [h |-> r.h, v |-> NoneV, err |-> "TypeError"]

\* Yaco.__setitem__ with the key never split: the path is stored as a key.
Yaco__setitem__literal(h, n, key, value) ==
    [h |-> Yaco__setattr__(h, n, key, value), err |-> ""]

RECURSIVE Yaco__setitem__(_, _, _, _)
\* Yaco.__setitem__(key, value): [h |-> heap, err |-> error]
Yaco__setitem__(h, n, key, value) ==
    IF ~HasDot(key) THEN [h |-> Yaco__setattr__(h, n, key, value), err |-> ""]
    ELSE LET r == Yaco__getattr__(h, n, SplitK1(key)) IN
         IF isYaco(r.h, r.v) THEN Yaco__setitem__(r.h, r.v.v, SplitK2(key), value)
         ELSE IF isdict(r.h, r.v)
         THEN [h |-> dict_setitem(r.h, r.v.v, SplitK2(key), value), err |-> ""]
         ELSE [h |-> r.h, err |-> "TypeError"]

\* Yaco.__delattr__(name) = dict.__delitem__(name)
Yaco__delattr__(h, n, name) ==
    IF ~dict_contains(h, n, name) THEN [h |-> h, err |-> "KeyError"]
    ELSE [h |-> [h EXCEPT ![n] =
                   [@ EXCEPT !.map = [k \in DOMAIN @ \ {name} |-> @[k]],
                             !.order = SelectSeq(@, LAMBDA k : k # name)]],
          err |-> ""]

\* The default [] of self.get('_private', []): an empty list nothing else holds.
EmptyListV == [t |-> "nil", v |-> 0]

\* k in _priv, for _priv = self.get('_private', []): a list holds key names,
\* a dict is searched by key, None or a number is not iterable.
in_priv(h, _priv, k) ==
    IF islist(h, _priv) THEN \E i \in 1..Len(h[_priv.v].items) : h[_priv.v].items[i] = Str(k)
    ELSE IF isdict(h, _priv) THEN dict_contains(h, _priv.v, k)
    ELSE FALSE
in_priv_raises(h, _priv) == _priv.t \in {"none", "s"}

RECURSIVE get_data(_, _)
RECURSIVE get_data_keys(_, _, _, _, _)
RECURSIVE check_data(_, _)
RECURSIVE check_data_list(_, _, _, _)

\* check_data(v) of get_data: a Yaco is replaced by its get_data(), a list by
\* a new list of the checked elements, anything else is kept.
check_data(h, v) ==
    IF isYaco(h, v) THEN get_data(h, v.v)
    ELSE IF islist(h, v)
    THEN LET n == Len(h) + 1 IN
         check_data_list(Append(h, ListCell(<< >>)), n, h[v.v].items, 1)
    ELSE [h |-> h, v |-> v, err |-> ""]
check_data_list(h, new, items, i) ==
    IF i > Len(items) THEN [h |-> h, v |-> R(new), err |-> ""]
    ELSE LET r == check_data(h, items[i]) IN
         IF r.err # "" THEN r
         ELSE check_data_list([r.h EXCEPT ![new].items = Append(@, r.v)], new, items, i + 1)

\* The loop of get_data over list(self.keys()); data[k] = check_data(self[k])
\* reads self[k] through Yaco.__getitem__.
get_data_keys(h, n, data, _priv, keys) ==
    IF keys = << >> THEN [h |-> h, v |-> R(data), err |-> ""]
    ELSE LET k == Head(keys) IN
         IF in_priv_raises(h, _priv) THEN [h |-> h, v |-> NoneV, err |-> "TypeError"]
         ELSE IF in_priv(h, _priv, k) \/ PrivatePrefix(k)
         THEN get_data_keys(h, n, data, _priv, Tail(keys))
         ELSE LET item == Yaco__getitem__(h, n, k) IN
              IF item.err # "" THEN [h |-> item.h, v |-> NoneV, err |-> item.err]
              ELSE LET c == check_data(item.h, item.v) IN
                   IF c.err # "" THEN c
                   ELSE get_data_keys(dict_setitem(c.h, data, k, c.v), n, data, _priv,
                                      Tail(keys))

\* Yaco.get_data(): [h |-> heap, v |-> the exported dict, err |-> error]
get_data(h, n) ==
    LET data == Len(h) + 1 IN
    get_data_keys(Append(h, DictCell), n, data,
                  IF dict_contains(h, n, "_private") THEN h[n].map["_private"]
                  ELSE EmptyListV,
                  h[n].order)

(***************************************************************************)
(* Files.  A file holds a YAML document: a literal with its keys sorted, or *)
(* nothing (an empty file, which yaml.load reads as None).                  *)
(***************************************************************************)
NoFile == [exists |-> FALSE, doc |-> NoneV]
File(doc) == [exists |-> TRUE, doc |-> doc]
isfile(files, filename) == filename \in DOMAIN files /\ files[filename].exists

\* The keys, in the order yaml.dump writes them.
SortedKeys == <<"_c", "_private", "a", "a.b", "a.b.c", "b", "b.c", "c", "q">>

RECURSIVE yaml_dump(_, _)
\* yaml.dump / yaml.safe_dump of plain data, as the document it writes.
yaml_dump(h, v) ==
    IF ~IsRef(v) THEN v
    ELSE IF h[v.v].kind = "list"
         THEN L([i \in 1..Len(h[v.v].items) |-> yaml_dump(h, h[v.v].items[i])])
         ELSE LET ks == SelectSeq(SortedKeys, LAMBDA k : k \in DOMAIN h[v.v].map) IN
              D([i \in 1..Len(ks) |-> <<ks[i], yaml_dump(h, h[v.v].map[ks[i]])>>])

\* yaml.load of a document: new plain dicts and lists.
yaml_load(h, doc) == AllocLit(h, doc)

\* Yaco.load(from_file), leaf None: self.update(yaml.load(F))
Yaco_load(h, files, n, from_file) ==
    LET data == yaml_load(h, files[from_file].doc) IN update(data.h, n, data.v)

\* yaml.dump of what get_data() returned: [h |-> heap, v |-> document,
\* err |-> error]
dumped(g) ==
    [h |-> g.h, v |-> IF g.err = "" THEN yaml_dump(g.h, g.v) ELSE NoneV, err |-> g.err]

\* Yaco.dump()
Yaco_dump(h, n) == dumped(get_data(h, n))

\* open(to_file, 'w', 0): the file is created, or emptied.
open_w(files, to_file) ==
    [f \in DOMAIN files \cup {to_file} |-> IF f = to_file THEN File(NoneV) ELSE files[f]]

\* F.write(self.dump()) on the file opened.
F_write(text, opened, to_file) ==
    IF text.err # "" THEN [h |-> text.h, fs |-> opened, err |-> text.err]
    ELSE [h |-> text.h, fs |-> [opened EXCEPT ![to_file] = File(text.v)], err |-> ""]

\* Yaco.save after data = self.get_data().  Under Python 3
\* open(to_file, 'w', 0, encoding='utf-8') creates or empties the file and
\* raises ValueError, as text I/O cannot be unbuffered; under Python 2
\* self.dump() is written.
save_data(data, files, n, to_file, version) ==
    IF data.err # "" THEN [h |-> data.h, fs |-> files, err |-> data.err]
    ELSE IF version = 3
         THEN [h |-> data.h, fs |-> open_w(files, to_file), err |-> "ValueError"]
         ELSE F_write(Yaco_dump(data.h, n), open_w(files, to_file), to_file)

\* Yaco.save(to_file): [h |-> heap, fs |-> files, err |-> error]
Yaco_save(h, files, n, to_file, version) ==
    save_data(get_data(h, n), files, n, to_file, version)

(***************************************************************************)
(* class PolyYaco.  self is the record of its fields _PolyYaco_filenames,  *)
(* _PolyYaco_yacs, _PolyYaco_dirty and _PolyYaco_merged, with the heap and *)
(* the files.                                                              *)
(***************************************************************************)
Self ==
    [heap |-> heap, fs |-> fs, filenames |-> filenames, yacs |-> yacs,
     dirty |-> dirty, merged |-> merged]

RECURSIVE load_files(_, _)
\* The loop of PolyYaco.load over _PolyYaco_rawfiles: a file is loaded into a
\* new Yaco and appended, anything else is skipped.
load_files(self, files) ==
    IF files = << >> THEN self
    ELSE LET filename == Head(files)
             content == Len(self.heap) + 1
         IN  IF isfile(self.fs, filename)
             THEN load_files(
                    [self EXCEPT
                       !.heap = Yaco_load(Append(self.heap, YacoCell), self.fs,
                                          content, filename),
                       !.filenames = Append(@, filename),
                       !.yacs = Append(@, content)],
                    Tail(files))
             ELSE load_files(self, Tail(files))

\* PolyYaco.load()
PolyYaco_load(self, b, files) ==
    LET cleared == [self EXCEPT !.dirty = TRUE, !.filenames = << >>, !.yacs = << >>,
                                !.merged = NoneV]
        y == Yaco_init(self.heap, b)
    IN  IF b # NoneV
        THEN load_files([cleared EXCEPT !.heap = y.h, !.filenames = <<"_base">>,
                                        !.yacs = <<y.v.v>>], files)
        ELSE load_files(cleared, files)

\* PolyYaco._getTop(): (filename, Yaco) of the last layer, or (None, None)
_getTop(self) ==
    IF Len(self.yacs) > 0
    THEN [cfn |-> self.filenames[Len(self.filenames)], cyc |-> self.yacs[Len(self.yacs)]]
    ELSE [cfn |-> "", cyc |-> 0]

\* self after cyc.save(cfn) returned r.
saved(self, r) == [self |-> [self EXCEPT !.heap = r.h, !.fs = r.fs], err |-> r.err]

\* PolyYaco.save() without the test for the base layer.
PolyYaco_save_unguarded(self, version) ==
    LET top == _getTop(self) IN
    IF top.cyc = 0 THEN [self |-> self, err |-> "AttributeError"]
    ELSE saved(self, Yaco_save(self.heap, self.fs, top.cyc, top.cfn, version))

\* PolyYaco.save(): [self |-> self, err |-> error]
PolyYaco_save(self, version) ==
    LET top == _getTop(self) IN
    IF top.cfn = "_base" THEN [self |-> self, err |-> "Exception"]
    ELSE IF top.cyc = 0 THEN [self |-> self, err |-> "AttributeError"]
    ELSE saved(self, Yaco_save(self.heap, self.fs, top.cyc, top.cfn, version))

RECURSIVE merge_layers_top_first(_, _, _)
\* merge_layers taking the layers from the top of the stack down.
merge_layers_top_first(h, y, layers) ==
    IF layers = << >> THEN h
    ELSE merge_layers_top_first(update(h, y, R(layers[Len(layers)])), y,
                                SubSeq(layers, 1, Len(layers) - 1))

RECURSIVE merge_layers(_, _, _)
\* The loop of PolyYaco.merge: y.update(yy) for each layer, lowest first.
merge_layers(h, y, layers) ==
    IF layers = << >> THEN h
    ELSE merge_layers(update(h, y, R(Head(layers))), y, Tail(layers))

\* PolyYaco.merge() without the test of the dirty flag.
PolyYaco_merge_uncached(self) ==
    LET y == Len(self.heap) + 1 IN
    [self |-> [self EXCEPT !.heap = merge_layers(Append(self.heap, YacoCell), y,
                                                 self.yacs),
                           !.merged = R(y), !.dirty = FALSE],
     v |-> R(y)]

\* PolyYaco.merge(): [self |-> self, v |-> the merged Yaco]
PolyYaco_merge(self) ==
    IF ~self.dirty THEN [self |-> self, v |-> self.merged]
    ELSE LET y == Len(self.heap) + 1 IN
         [self |-> [self EXCEPT !.heap = merge_layers(Append(self.heap, YacoCell), y,
                                                      self.yacs),
                                !.merged = R(y), !.dirty = FALSE],
          v |-> R(y)]

\* PolyYaco.has_key(key) and PolyYaco.__contains__(key): key in self.merge()
PolyYaco_has_key(self, key) ==
    LET m == PolyYaco_merge(self) IN
    [self |-> m.self, v |-> dict_contains(m.self.heap, m.v.v, key)]

\* PolyYaco.__getattr__(key), also __getitem__: self.merge().__getattr__(key)
PolyYaco__getattr__(self, key) ==
    LET m == PolyYaco_merge(self)
        rv == Yaco__getattr__(m.self.heap, m.v.v, key)
    IN  [self |-> [m.self EXCEPT !.heap = rv.h], v |-> rv.v]

\* PolyYaco.get(key, default): the default when the value read equals {}
PolyYaco_get(self, key, default) ==
    LET rv == PolyYaco__getattr__(self, key) IN
    IF isdict(rv.self.heap, rv.v) /\ DOMAIN rv.self.heap[rv.v.v].map = {}
    THEN [self |-> rv.self, v |-> default]
    ELSE rv

\* PolyYaco.__setattr__ without self._PolyYaco_dirty = True.
PolyYaco__setattr__clean(self, key, value) ==
    IF Len(self.yacs) = 0 THEN [self |-> self, err |-> "AttributeError"]
    ELSE [self |-> [self EXCEPT !.heap = Yaco__setattr__(self.heap,
                                             self.yacs[Len(self.yacs)], key, value)],
          err |-> ""]

\* PolyYaco.__setattr__(key, value), also __setitem__, for a key that is not
\* an instance variable: [self |-> self, err |-> error]
PolyYaco__setattr__(self, key, value) ==
    LET top == _getTop(self)
        marked == [self EXCEPT !.dirty = TRUE]
    IN  IF top.cyc = 0 THEN [self |-> marked, err |-> "AttributeError"]
        ELSE [self |-> [marked EXCEPT !.heap = Yaco__setattr__(self.heap, top.cyc, key, value)],
              err |-> ""]

\* value.sub = v on what cfg.key returned: a Yaco takes the assignment, on
\* anything else Python raises AttributeError.
returned__setattr__(rv, sub, value) ==
    IF isYaco(rv.self.heap, rv.v)
    THEN [self |-> [rv.self EXCEPT
                      !.heap = Yaco__setattr__(rv.self.heap, rv.v.v, sub, value)],
          err |-> ""]
    ELSE [self |-> rv.self, err |-> "AttributeError"]

\* cfg.key.sub = value: PolyYaco.__getattr__(key), then __setattr__ on the
\* value it returned.  [self |-> self, err |-> error]
PolyYaco_nested_set(self, key, sub, value) ==
    returned__setattr__(PolyYaco__getattr__(self, key), sub, value)

\* cfg._PolyYaco_yacs[i].key = value with the dirty flag set as a write
\* through the PolyYaco sets it.
layer__setattr__marking(self, i, key, value) ==
    [self EXCEPT !.heap = Yaco__setattr__(self.heap, self.yacs[i], key, value),
                 !.dirty = TRUE]

\* cfg._PolyYaco_yacs[i].key = value: PolyYaco.__getattr__ hands out the
\* instance variable, and the Node of layer i is assigned by reference.
layer__setattr__(self, i, key, value) ==
    [self EXCEPT !.heap = Yaco__setattr__(self.heap, self.yacs[i], key, value)]

(***************************************************************************)
(* The Node on its own: a Yaco built from a literal, then read, written,   *)
(* updated and exported.  last records the call made and what it returned, *)
(* pre the heap the call started from.                                     *)
(***************************************************************************)
MaxSteps == 2

PlainKeys == {"a", "b", "c"}
PathKeys == {"a.b", "a.b.c"}

NodeInits ==
    { D(<< >>),
      D(<< <<"a", S(1)>>, <<"b", D(<< <<"c", S(2)>>, <<"b", S(3)>> >>)>> >>),
      D(<< <<"a", S(0)>>, <<"b", D(<< >>)>>,
           <<"c", L(<< S(1), D(<< <<"a", S(1)>>, <<"_c", S(2)>> >>) >>)>> >>),
      D(<< <<"a", D(<< <<"b", D(<< <<"c", S(1)>> >>)>>, <<"_c", S(4)>> >>)>>,
           <<"_c", S(3)>>, <<"_private", L(<< Str("b") >>)>>, <<"b", S(2)>> >>),
      D(<< <<"a.b", S(1)>>, <<"c", S(2)>> >>) }

UpdateLits ==
    { D(<< >>),
      D(<< <<"a", S(2)>>, <<"c", S(0)>> >>),
      D(<< <<"b", D(<< <<"c", S(5)>>, <<"a", S(6)>> >>)>>, <<"a", D(<< >>)>> >>),
      D(<< <<"c", L(<< S(3), D(<< <<"b", S(1)>> >>) >>)>>,
           <<"b", D(<< <<"a", D(<< <<"a", S(7)>> >>)>> >>)>> >>) }

SetLits == { S(4), D(<< <<"b", S(5)>> >>), L(<< S(1) >>) }

\* A call record: the operation, the Node it was called on, its key and value
\* arguments, whether the key was a direct entry of the Node when it was
\* called, and what it returned or raised.
NoCall == [op |-> "init", n |-> 0, key |-> "", val |-> NoneV, had |-> FALSE,
           res |-> NoneV, err |-> ""]
Call(op, n, key, val, res, err) ==
    [op |-> op, n |-> n, key |-> key, val |-> val,
     had |-> n # 0 /\ key # "" /\ dict_contains(heap, n, key),
     res |-> res, err |-> err]

PolyIdle ==
    /\ py = 3 /\ base = NoneV /\ rawfiles = << >> /\ fs = << >>
    /\ filenames = << >> /\ yacs = << >> /\ dirty = FALSE /\ merged = NoneV
    /\ was = << >> /\ recomputes = 0

InitNode ==
    /\ \E lit \in NodeInits :
          LET a == AllocLit(<< >>, lit)
              y == Yaco_init(a.h, a.v)
          IN  heap = y.h /\ node = y.v.v
    /\ last = NoCall /\ prev = NoCall /\ pre = << >> /\ steps = 0
    /\ PolyIdle

PolyVars == <<py, base, rawfiles, fs, filenames, yacs, dirty, merged, was, recomputes>>

\* The Nodes a caller holds: the Node itself and the Node its last read returned.
Targets == {node} \cup (IF isYaco(heap, last.res) THEN {last.res.v} ELSE {})

NodeGetAttr ==
    \E n \in Targets, key \in PlainKeys \cup {"a.b"} :
        LET r == Yaco__getattr__(heap, n, key) IN
        /\ steps < MaxSteps
        /\ heap' = r.h /\ pre' = heap /\ steps' = steps + 1
        /\ prev' = last
        /\ last' = Call("getattr", n, key, NoneV, r.v, r.err)
        /\ UNCHANGED <<node, PolyVars>>

NodeGetItem ==
    \E n \in Targets, key \in PlainKeys \cup PathKeys :
        LET r == Yaco__getitem__(heap, n, key) IN
        /\ steps < MaxSteps
        /\ heap' = r.h /\ pre' = heap /\ steps' = steps + 1
        /\ prev' = last
        /\ last' = Call("getitem", n, key, NoneV, r.v, r.err)
        /\ UNCHANGED <<node, PolyVars>>

NodeSetAttr ==
    \E n \in Targets, key \in {"a", "a.b"}, lit \in SetLits :
        LET a == AllocLit(heap, lit) IN
        /\ steps < MaxSteps
        /\ heap' = Yaco__setattr__(a.h, n, key, a.v) /\ pre' = a.h /\ steps' = steps + 1
        /\ prev' = last
        /\ last' = Call("setattr", n, key, a.v, NoneV, "")
        /\ UNCHANGED <<node, PolyVars>>

NodeSetItem ==
    \E n \in Targets, key \in {"b"} \cup PathKeys, lit \in SetLits :
        LET a == AllocLit(heap, lit)
            r == Yaco__setitem__(a.h, n, key, a.v)
        IN  /\ steps < MaxSteps
            /\ heap' = r.h /\ pre' = a.h /\ steps' = steps + 1
            /\ prev' = last
        /\ last' = Call("setitem", n, key, a.v, NoneV, r.err)
            /\ UNCHANGED <<node, PolyVars>>

NodeDelAttr ==
    \E n \in Targets, key \in {"a", "b"} :
        LET r == Yaco__delattr__(heap, n, key) IN
        /\ steps < MaxSteps
        /\ heap' = r.h /\ pre' = heap /\ steps' = steps + 1
        /\ prev' = last
        /\ last' = Call("delattr", n, key, NoneV, NoneV, r.err)
        /\ UNCHANGED <<node, PolyVars>>

NodeUpdate ==
    \E n \in Targets, lit \in UpdateLits :
        LET a == AllocLit(heap, lit) IN
        /\ steps < MaxSteps
        /\ heap' = update(a.h, n, a.v) /\ pre' = a.h /\ steps' = steps + 1
        /\ prev' = last
        /\ last' = Call("update", n, "", a.v, NoneV, "")
        /\ UNCHANGED <<node, PolyVars>>

NodeSoftUpdate ==
    \E n \in Targets, lit \in UpdateLits :
        LET a == AllocLit(heap, lit) IN
        /\ steps < MaxSteps
        /\ heap' = soft_update(a.h, n, a.v) /\ pre' = a.h /\ steps' = steps + 1
        /\ prev' = last
        /\ last' = Call("soft_update", n, "", a.v, NoneV, "")
        /\ UNCHANGED <<node, PolyVars>>

NodeGetData ==
    \E n \in Targets :
        LET r == get_data(heap, n) IN
        /\ steps < MaxSteps
        /\ heap' = r.h /\ pre' = heap /\ steps' = steps + 1
        /\ prev' = last
        /\ last' = Call("get_data", n, "", NoneV, r.v, r.err)
        /\ UNCHANGED <<node, PolyVars>>

NextNode ==
    \/ NodeGetAttr \/ NodeGetItem \/ NodeSetAttr \/ NodeSetItem \/ NodeDelAttr
    \/ NodeUpdate \/ NodeSoftUpdate \/ NodeGetData

SpecNode == InitNode /\ [][NextNode]_vars

(***************************************************************************)
(* The PolyYaco: constructed over an optional base mapping and a list of   *)
(* files, then read, written, merged, saved and reloaded.                  *)
(***************************************************************************)
MaxPolySteps == 3

PyVersions == {2, 3}

BaseLit ==
    D(<< <<"a", S(1)>>, <<"b", L(<< S(0), D(<< <<"a", S(6)>> >>) >>)>>,
         <<"c", D(<< <<"a", S(3)>> >>)>> >>)
DocA == D(<< <<"a", S(18)>>, <<"c", D(<< <<"b", S(4)>> >>)>> >>)
DocB == D(<< <<"b", D(<< <<"c", S(9)>> >>)>>, <<"c", D(<< <<"a", S(7)>> >>)>> >>)

Files == [f \in {"fA", "fB", "fM"} |->
            IF f = "fA" THEN File(DocA) ELSE IF f = "fB" THEN File(DocB) ELSE NoFile]
RawFiles == { << >>, <<"fA">>, <<"fA", "fM", "fB">> }

PolyKeys == {"a", "c", "q"}
PolySetLits == { S(19), D(<< <<"b", S(5)>> >>) }
Default == S(77)
LayerKeys == {"a", "q"}
LayerValue == S(5)
NestedKey == "b"
NestedValue == S(8)

\* PolyYaco.__init__(name, files, base): the fields are set, then self.load()
InitPoly ==
    /\ py \in PyVersions
    /\ rawfiles \in RawFiles
    /\ fs = Files
    /\ \E b \in {NoneV, BaseLit} :
          LET a == AllocLit(<< >>, b)
              new == [heap |-> a.h, fs |-> Files, filenames |-> << >>, yacs |-> << >>,
                      dirty |-> FALSE, merged |-> NoneV]
              self == PolyYaco_load(new, a.v, rawfiles)
          IN  /\ base = a.v
              /\ heap = self.heap /\ filenames = self.filenames /\ yacs = self.yacs
              /\ dirty = self.dirty /\ merged = self.merged
    /\ node = 0 /\ last = NoCall /\ prev = NoCall /\ pre = << >> /\ was = << >>
    /\ steps = 0 /\ recomputes = 0

\* The fields of self after a call, and the record of the call.  recomputes
\* counts the merged Nodes built since the last load() or write.
Commit(self, before, call) ==
    /\ steps < MaxPolySteps
    /\ steps' = steps + 1
    /\ heap' = self.heap /\ fs' = self.fs /\ filenames' = self.filenames
    /\ yacs' = self.yacs /\ dirty' = self.dirty /\ merged' = self.merged
    /\ pre' = before.heap /\ was' = before
    /\ prev' = last /\ last' = call
    /\ recomputes' = IF call.op \in {"load", "setattr"} THEN 0
                     ELSE IF self.merged \notin {before.merged, NoneV}
                          THEN recomputes + 1
                          ELSE recomputes
    /\ UNCHANGED <<node, py, base, rawfiles>>

PolyCall(op, key, val, res, err) ==
    [op |-> op, n |-> 0, key |-> key, val |-> val,
     had |-> \E i \in 1..Len(yacs) : dict_contains(heap, yacs[i], key),
     res |-> res, err |-> err]

PolyLoad ==
    Commit(PolyYaco_load(Self, base, rawfiles), Self,
           PolyCall("load", "", NoneV, NoneV, ""))

PolyMerge ==
    LET r == PolyYaco_merge(Self) IN
    Commit(r.self, Self, PolyCall("merge", "", NoneV, r.v, ""))

PolyGetAttr ==
    \E key \in PolyKeys :
        LET r == PolyYaco__getattr__(Self, key) IN
        Commit(r.self, Self, PolyCall("getattr", key, NoneV, r.v, ""))

PolyGet ==
    \E key \in PolyKeys :
        LET r == PolyYaco_get(Self, key, Default) IN
        Commit(r.self, Self, PolyCall("get", key, Default, r.v, ""))

PolyHasKey ==
    \E key \in {"a", "q"}, op \in {"has_key", "contains"} :
        LET r == PolyYaco_has_key(Self, key) IN
        Commit(r.self, Self, PolyCall(op, key, NoneV, S(IF r.v THEN 1 ELSE 0), ""))

PolySetAttr ==
    \E key \in PolyKeys, lit \in PolySetLits :
        LET a == AllocLit(heap, lit)
            before == [Self EXCEPT !.heap = a.h]
            r == PolyYaco__setattr__(before, key, a.v)
        IN  Commit(r.self, before, PolyCall("setattr", key, a.v, NoneV, r.err))

PolySave ==
    LET r == PolyYaco_save(Self, py) IN
    Commit(r.self, Self, PolyCall("save", "", NoneV, NoneV, r.err))

\* A layer's Node is mutated by reference, not through the PolyYaco.
PolyLayerSet ==
    \E i \in 1..Len(yacs), key \in LayerKeys :
        Commit(layer__setattr__(Self, i, key, LayerValue), Self,
               [PolyCall("layer_set", key, LayerValue, NoneV, "") EXCEPT !.n = i])

\* cfg.key.b = value
PolyNestedSet ==
    \E key \in PolyKeys :
        LET r == PolyYaco_nested_set(Self, key, NestedKey, NestedValue) IN
        Commit(r.self, Self, PolyCall("nested_set", key, NestedValue, NoneV, r.err))

Next ==
    \/ PolyLoad \/ PolyMerge \/ PolyGetAttr \/ PolyGet \/ PolyHasKey
    \/ PolySetAttr \/ PolySave \/ PolyLayerSet \/ PolyNestedSet

Spec == InitPoly /\ [][Next]_vars

(***************************************************************************)
(* Properties of the Node                                                  *)
(***************************************************************************)
RECURSIVE UpdTree(_, _)
\* The deep merge of a mapping o into a mapping n, on structures: maps at the
\* same key merge, anything else of o replaces, the other keys of n stay.
UpdTree(n, o) ==
    [t |-> "d",
     v |-> [k \in DOMAIN n.v \cup DOMAIN o.v |->
              IF k \notin DOMAIN o.v THEN n.v[k]
              ELSE IF k \in DOMAIN n.v /\ n.v[k].t = "d" /\ o.v[k].t = "d"
                   THEN UpdTree(n.v[k], o.v[k])
                   ELSE o.v[k]]]

TruthyTree(x) ==
    CASE x.t \in {"none", "nil"} -> FALSE
      [] x.t = "s" -> x.v # 0
      [] x.t = "str" -> TRUE
      [] x.t \in {"d", "l"} -> DOMAIN x.v # {}

RECURSIVE SoftTree(_, _)
\* The non-destructive merge of o into n, on structures: a truthy value of n
\* stays (a map is filled from a map of o), anything else takes o's value.
SoftTree(n, o) ==
    [t |-> "d",
     v |-> [k \in DOMAIN n.v \cup DOMAIN o.v |->
              IF k \notin DOMAIN o.v THEN n.v[k]
              ELSE IF k \notin DOMAIN n.v \/ ~TruthyTree(n.v[k]) THEN o.v[k]
              ELSE IF n.v[k].t = "d" /\ o.v[k].t = "d"
                   THEN SoftTree(n.v[k], o.v[k])
                   ELSE n.v[k]]]

\* C7: after n.update(o), n is the deep merge of o into the old n: maps at the
\* same key are merged recursively with o winning, a sequence of o replaces
\* what n held (n holds that very sequence), any other value of o replaces,
\* and the keys of n that o lacks keep their values.
C7_UpdateIsDeepMerge ==
    last.op = "update" =>
        /\ TreeOf(heap, R(last.n)) = UpdTree(TreeOf(pre, R(last.n)), TreeOf(pre, last.val))
        /\ \A k \in DOMAIN pre[last.val.v].map :
              islist(pre, pre[last.val.v].map[k]) =>
                  heap[last.n].map[k] = pre[last.val.v].map[k]

\* An update that merged two maps with keys of their own, replaced a scalar,
\* and stored a sequence.
C7_Witness ==
    /\ last.op = "update"
    /\ \E k \in DOMAIN pre[last.n].map \cap DOMAIN pre[last.val.v].map :
          LET nk == pre[last.n].map[k]
              ok == pre[last.val.v].map[k]
          IN  /\ isYaco(pre, nk) /\ isdict(pre, ok)
              /\ DOMAIN pre[nk.v].map \ DOMAIN pre[ok.v].map # {}
              /\ DOMAIN pre[ok.v].map \ DOMAIN pre[nk.v].map # {}
              /\ DOMAIN heap[nk.v].map = DOMAIN pre[nk.v].map \cup DOMAIN pre[ok.v].map
    /\ \E k \in DOMAIN pre[last.val.v].map : islist(pre, pre[last.val.v].map[k])
    /\ \E k \in DOMAIN pre[last.n].map \ DOMAIN pre[last.val.v].map : TRUE

\* C8: after n.soft_update(o), a present truthy value of n is not overwritten
\* (a scalar or a sequence stays, a non-empty Node is filled recursively from
\* a map of o), and an absent or falsy value takes o's value.
C8_SoftUpdateFillsOnly ==
    last.op = "soft_update" =>
        TreeOf(heap, R(last.n)) = SoftTree(TreeOf(pre, R(last.n)), TreeOf(pre, last.val))

\* A soft_update that kept a truthy scalar o also defines, filled a falsy
\* one, and filled a missing key of a nested Node.
C8_Witness ==
    /\ last.op = "soft_update"
    /\ \E k \in DOMAIN pre[last.n].map \cap DOMAIN pre[last.val.v].map :
          /\ pre[last.n].map[k].t = "s" /\ pre[last.n].map[k].v # 0
          /\ heap[last.n].map[k] = pre[last.n].map[k]
          /\ pre[last.val.v].map[k] # pre[last.n].map[k]
    /\ \E k \in DOMAIN pre[last.n].map \cap DOMAIN pre[last.val.v].map :
          LET nk == pre[last.n].map[k]
              ok == pre[last.val.v].map[k]
          IN  /\ isYaco(pre, nk) /\ Truthy(pre, nk) /\ isdict(pre, ok)
              /\ DOMAIN pre[ok.v].map \ DOMAIN pre[nk.v].map # {}
              /\ DOMAIN heap[nk.v].map = DOMAIN pre[nk.v].map \cup DOMAIN pre[ok.v].map
              /\ \E j \in DOMAIN pre[nk.v].map \cap DOMAIN pre[ok.v].map :
                    /\ heap[nk.v].map[j] = pre[nk.v].map[j]
                    /\ pre[ok.v].map[j] # pre[nk.v].map[j]

Reads == {"getattr", "getitem"}
\* A read of one key: an attribute access, or an index access whose key has
\* no '.'.
KeyRead(c) == c.op = "getattr" \/ (c.op = "getitem" /\ ~HasDot(c.key))

\* C5: reading a key that is not a direct entry of a Node does not fail,
\* returns a new empty Node and stores that Node at the key; the key is then
\* a direct entry, a later read of it returns the same Node, and a change
\* made through the returned Node is seen through the parent.
C5_ReadCreatesAndStores ==
    /\ (KeyRead(last) /\ ~last.had) =>
          /\ last.err = ""
          /\ isYaco(heap, last.res) /\ DOMAIN heap[last.res.v].map = {}
          /\ last.res.v > Len(pre)
          /\ dict_contains(heap, last.n, last.key)
          /\ Yaco_has_key(heap, last.n, last.key)
          /\ heap[last.n].map[last.key] = last.res
    /\ (KeyRead(last) /\ KeyRead(prev) /\ ~prev.had
            /\ last.n = prev.n /\ last.key = prev.key) =>
          /\ last.err = "" /\ last.res = prev.res /\ heap = pre
    /\ (KeyRead(prev) /\ ~prev.had /\ last.n = prev.res.v
            /\ last.op \in {"setattr", "setitem", "update"} /\ last.err = "") =>
          /\ heap[prev.n].map[prev.key] = prev.res
          /\ TreeOf(heap, R(prev.n)).v[prev.key] = TreeOf(heap, prev.res)
          /\ (last.op = "setattr" => dict_contains(heap, prev.res.v, last.key))
          /\ (last.op = "update" =>
                 DOMAIN pre[last.val.v].map \subseteq DOMAIN heap[prev.res.v].map)

\* A key was read that the Node did not have, and the Node returned was then
\* written: the parent shows the written key under the key that was read.
C5_Witness ==
    /\ KeyRead(prev) /\ ~prev.had
    /\ last.op = "setattr" /\ last.n = prev.res.v /\ last.val = S(4)
    /\ heap[heap[prev.n].map[prev.key].v].map[last.key] = S(4)

\* The segments of a path.
Segs(key) ==
    CASE key = "a.b" -> <<"a", "b">>
      [] key = "b.c" -> <<"b", "c">>
      [] key = "a.b.c" -> <<"a", "b", "c">>

Missing == [t |-> "missing", v |-> 0]

RECURSIVE Nav(_, _, _)
\* What the direct entries hold along the segments, nothing being created.
Nav(h, v, segs) ==
    IF segs = << >> THEN v
    ELSE IF isdict(h, v) /\ dict_contains(h, v.v, Head(segs))
         THEN Nav(h, h[v.v].map[Head(segs)], Tail(segs))
         ELSE Missing

RECURSIVE SeqNav(_, _, _)
\* Navigation one key at a time, node[s1][s2]...[sn], from the value v.
SeqNav(h, v, segs) ==
    IF segs = << >> THEN [h |-> h, v |-> v, err |-> ""]
    ELSE IF ~isYaco(h, v) THEN [h |-> h, v |-> NoneV, err |-> "TypeError"]
    ELSE LET r == Yaco__getattr__(h, v.v, Head(segs)) IN SeqNav(r.h, r.v, Tail(segs))

RECURSIVE PrefixOK(_, _, _)
\* Every proper prefix of the path is absent or holds a Node.
PrefixOK(h, v, segs) ==
    IF Len(segs) <= 1 THEN TRUE
    ELSE IF ~dict_contains(h, v.v, Head(segs)) THEN TRUE
    ELSE /\ isYaco(h, h[v.v].map[Head(segs)])
         /\ PrefixOK(h, h[v.v].map[Head(segs)], Tail(segs))

\* The assignment stored no key with a '.' in the Node it was called on.
NoLiteralKeyStored ==
    \A k \in DOMAIN heap[last.n].map :
        HasDot(k) => k \in DOMAIN pre[last.n].map /\ heap[last.n].map[k] = pre[last.n].map[k]

PathRead == last.op = "getitem" /\ HasDot(last.key)
PathWrite == last.op = "setitem" /\ HasDot(last.key)

\* An index read of a path does what navigation one key at a time does.
PathReadIsSeqNav ==
    PathRead =>
        LET s == SeqNav(pre, R(last.n), Segs(last.key)) IN
        last.res = s.v /\ last.err = s.err /\ heap = s.h

\* C6 as stated: for every Node, path p and value v, node[p] = v followed by
\* navigation along the segments of p yields v, node[p] reads what that
\* navigation reads, and p is not stored as a key.
C6_AsStated ==
    /\ PathWrite =>
          /\ last.err = ""
          /\ TreeOf(heap, Nav(heap, R(last.n), Segs(last.key))) = TreeOf(pre, last.val)
          /\ NoLiteralKeyStored
    /\ PathReadIsSeqNav

\* What Yaco.__setattr__ leaves at the last segment: a map written over a
\* Node is merged into it, anything else is stored.
PathStored ==
    LET old == Nav(pre, R(last.n), Segs(last.key)) IN
    IF isdict(pre, last.val) /\ isYaco(pre, old)
    THEN UpdTree(TreeOf(pre, old), TreeOf(pre, last.val))
    ELSE TreeOf(pre, last.val)

\* C6 amended: when every proper prefix of p is absent or holds a Node,
\* node[p] = v followed by navigation along p yields v, or v merged into the
\* Node p already held when v is a map; when a prefix holds anything else the
\* assignment raises TypeError; node[p] reads what navigation one key at a
\* time reads; p is never stored as a key.
C6_PathIsNavigation ==
    /\ (PathWrite /\ PrefixOK(pre, R(last.n), Segs(last.key))) =>
          /\ last.err = ""
          /\ TreeOf(heap, Nav(heap, R(last.n), Segs(last.key))) = PathStored
    /\ (PathWrite /\ ~PrefixOK(pre, R(last.n), Segs(last.key))) =>
          last.err = "TypeError"
    /\ PathWrite => NoLiteralKeyStored
    /\ PathReadIsSeqNav
    /\ (PathRead /\ PrefixOK(pre, R(last.n), Segs(last.key))) => last.err = ""

\* A three-segment path was assigned where none of its segments existed, and
\* the value is found by navigation.
C6_Witness ==
    /\ PathWrite /\ last.key = "a.b.c" /\ last.val = S(4) /\ last.err = ""
    /\ ~dict_contains(pre, last.n, "a")
    /\ Nav(heap, R(last.n), <<"a", "b", "c">>) = S(4)

\* k is named in the '_private' list of the map t.
InPrivTree(t, k) ==
    /\ "_private" \in DOMAIN t.v
    /\ t.v["_private"].t = "l"
    /\ \E i \in DOMAIN t.v["_private"].v : t.v["_private"].v[i] = Str(k)

RECURSIVE ExportTree(_)
\* The export of a structure: at every depth, and inside sequences, a map
\* loses its keys that start with '_' and those its own '_private' names.
ExportTree(t) ==
    CASE t.t = "d" ->
            [t |-> "d",
             v |-> [k \in {j \in DOMAIN t.v : ~PrivatePrefix(j) /\ ~InPrivTree(t, j)} |->
                      ExportTree(t.v[k])]]
      [] t.t = "l" -> [t |-> "l", v |-> [i \in DOMAIN t.v |-> ExportTree(t.v[i])]]
      [] OTHER -> t

RECURSIVE NoYaco(_, _)
\* No Yaco in the structure of v.
NoYaco(h, v) ==
    IF ~IsRef(v) THEN TRUE
    ELSE /\ h[v.v].kind # "yaco"
         /\ \A k \in DOMAIN h[v.v].map : NoYaco(h, h[v.v].map[k])
         /\ \A i \in 1..Len(h[v.v].items) : NoYaco(h, h[v.v].items[i])

\* C9: get_data() of any Node returns a plain structure that, at every depth
\* and inside sequences, has no key starting with '_' and no key its Node's
\* '_private' names, has every other direct key with its stored value, and
\* holds no Yaco.
C9_ExportStripsPrivate ==
    last.op = "get_data" =>
        /\ last.err = ""
        /\ TreeOf(heap, last.res) = ExportTree(TreeOf(pre, R(last.n)))
        /\ NoYaco(heap, last.res)

\* The same, for the Nodes none of whose keys, at any depth, has a '.'.
RECURSIVE NoDottedKey(_)
NoDottedKey(t) ==
    CASE t.t = "d" -> \A k \in DOMAIN t.v : ~HasDot(k) /\ NoDottedKey(t.v[k])
      [] t.t = "l" -> \A i \in DOMAIN t.v : NoDottedKey(t.v[i])
      [] OTHER -> TRUE
ExportOfPlainKeys ==
    (last.op = "get_data" /\ NoDottedKey(TreeOf(pre, R(last.n)))) =>
        /\ last.err = ""
        /\ TreeOf(heap, last.res) = ExportTree(TreeOf(pre, R(last.n)))
        /\ NoYaco(heap, last.res)
        /\ heap = [i \in 1..Len(heap) |-> IF i <= Len(pre) THEN pre[i] ELSE heap[i]]

(***************************************************************************)
(* Properties of the PolyYaco                                              *)
(***************************************************************************)
EmptyTree == [t |-> "d", v |-> EmptyMap]

RECURSIVE FoldTree(_, _)
\* The layers merged one after the other, lowest first, into acc.
FoldTree(acc, trees) ==
    IF trees = << >> THEN acc ELSE FoldTree(UpdTree(acc, Head(trees)), Tail(trees))

\* The structures of the layers when the last call was made, and now.
LayersBefore == [i \in 1..Len(was.yacs) |-> TreeOf(was.heap, R(was.yacs[i]))]
LayersNow == [i \in 1..Len(yacs) |-> TreeOf(heap, R(yacs[i]))]

\* The layers that have key k as a direct entry.
Defining(layers, k) == {i \in 1..Len(layers) : k \in DOMAIN layers[i].v}
Highest(set) == CHOOSE i \in set : \A j \in set : j <= i

RECURSIVE DocTree(_)
DocTree(doc) ==
    CASE doc.t = "d" ->
            [t |-> "d",
             v |-> [k \in {doc.v[i][1] : i \in 1..Len(doc.v)} |->
                      DocTree(doc.v[CHOOSE i \in 1..Len(doc.v) : doc.v[i][1] = k][2])]]
      [] doc.t = "l" -> [t |-> "l", v |-> [i \in 1..Len(doc.v) |-> DocTree(doc.v[i])]]
      [] OTHER -> doc

\* The layers below the top, and the base mapping, are as they were.
LowerLayersKept ==
    /\ yacs = was.yacs /\ filenames = was.filenames
    /\ \A i \in 1..(Len(yacs) - 1) : LayersNow[i] = LayersBefore[i]
    /\ TreeOf(heap, base) = TreeOf(was.heap, base)

\* What holds of C2 whatever the interpreter: an assignment changes the top
\* layer alone, and save() leaves every file but that of the top layer, and
\* every layer, as it was.
TopLayerFrame ==
    /\ (last.op = "setattr" /\ Len(was.yacs) >= 2) =>
          /\ last.err = ""
          /\ LowerLayersKept
          /\ fs = was.fs
          /\ dict_contains(heap, yacs[Len(yacs)], last.key)
          /\ ~isdict(heap, last.val) => heap[yacs[Len(yacs)]].map[last.key] = last.val
    /\ (last.op = "save" /\ Len(was.yacs) >= 2) =>
          /\ LowerLayersKept
          /\ LayersNow = LayersBefore
          /\ \A f \in DOMAIN fs :
                f # filenames[Len(filenames)] => f \in DOMAIN was.fs /\ fs[f] = was.fs[f]
          /\ last.err = "" =>
                /\ fs[filenames[Len(filenames)]].exists
                /\ DocTree(fs[filenames[Len(filenames)]].doc)
                      = ExportTree(LayersBefore[Len(yacs)])

\* C2: an assignment cfg.k = v on a PolyYaco with two layers or more changes
\* the top layer alone: the layers below it and the base mapping are as
\* before; a save() that follows persists the top layer, and it alone, to
\* the file of the top layer.
C2_WriteAndSaveTopOnly ==
    /\ TopLayerFrame
    /\ (prev.op = "setattr" /\ last.op = "save" /\ Len(was.yacs) >= 2) =>
          /\ last.err = ""
          /\ fs[filenames[Len(filenames)]].exists
          /\ DocTree(fs[filenames[Len(filenames)]].doc)
                = ExportTree(LayersBefore[Len(yacs)])

\* C3: after a write cfg.k = v of a scalar v, whatever was read or written
\* before and whether or not a merge was cached, the next read of k through
\* the PolyYaco (attribute access, get, merge()) gives v.
C3_ReadAfterWrite ==
    (prev.op = "setattr" /\ prev.err = "" /\ ~IsRef(prev.val)) =>
        /\ (last.op \in {"getattr", "get"} /\ last.key = prev.key) => last.res = prev.val
        /\ last.op = "merge" => dict_get(heap, last.res.v, prev.key) = prev.val
        /\ (last.op \in {"has_key", "contains"} /\ last.key = prev.key) => last.res = S(1)

\* A merge was cached by a read, the key was then written and read again: the
\* read gives the value written, not the cached one.
C3_Witness ==
    /\ prev.op = "setattr" /\ prev.err = "" /\ prev.val = S(19) /\ prev.key = "a"
    /\ last.op = "getattr" /\ last.key = "a" /\ last.res = S(19)
    /\ was.merged # NoneV /\ was.heap[was.merged.v].map["a"] = S(18)

\* C4: save() on a PolyYaco whose top layer is the base layer raises, and
\* then no file is written and the layers, the cached merge and the dirty
\* flag are as before.
C4_SaveOnBaseRaises ==
    (last.op = "save" /\ was.filenames = <<"_base">>) =>
        /\ last.err = "Exception"
        /\ fs = was.fs
        /\ heap = was.heap
        /\ yacs = was.yacs /\ filenames = was.filenames
        /\ merged = was.merged /\ dirty = was.dirty

\* save() was called, with a merge cached, on a PolyYaco that has a base and
\* no file.
C4_Witness ==
    /\ last.op = "save" /\ last.err = "Exception"
    /\ filenames = <<"_base">> /\ base # NoneV
    /\ ~dirty /\ merged # NoneV

\* C10: has_key(k) and k in cfg are true exactly when k is a direct entry of
\* a layer, whatever was read through the PolyYaco before.
C10_HasKeyIffInSomeLayer ==
    last.op \in {"has_key", "contains"} =>
        (last.res = S(1) <=> \E i \in 1..Len(was.yacs) : dict_contains(was.heap, was.yacs[i], last.key))

\* C12: the cache has two states.  It is dirty after construction, after
\* every load() and after every write; merge() when dirty builds the fold of
\* the layers as a new Node, caches it and clears the flag; merge() when
\* clean returns the cached Node and builds nothing; so between two writes or
\* loads the fold is built at most once, however many reads there are.
C12_CacheTwoStates ==
    /\ last.op \in {"init", "load", "setattr"} => dirty
    /\ last.op \in {"merge", "getattr", "get", "has_key", "contains"} =>
          /\ ~dirty /\ merged # NoneV
          /\ ~was.dirty => merged = was.merged
          /\ was.dirty => merged.v > Len(was.heap)
    /\ last.op = "merge" =>
          /\ last.res = merged
          /\ was.dirty => TreeOf(heap, merged) = FoldTree(EmptyTree, LayersBefore)
          /\ ~was.dirty => heap = was.heap
    /\ recomputes <= 1

\* After a write, merge() built the fold, and the merge() after it returned
\* the very same Node and left the heap alone.
C12_Witness ==
    /\ prev.op = "merge" /\ last.op = "merge" /\ ~was.dirty
    /\ last.res = prev.res /\ recomputes = 1
    /\ heap = was.heap /\ Len(yacs) >= 2

FoldAt(layers, key, sub) ==
    LET f == FoldTree(EmptyTree, layers) IN
    IF key \in DOMAIN f.v /\ f.v[key].t = "d" /\ sub \in DOMAIN f.v[key].v
    THEN f.v[key].v[sub] ELSE Missing

\* What cfg.key.sub = value does: the layers are as they were and the dirty
\* flag is clear; the value is in the cached merge and in no layer.
NestedWriteInCacheOnly ==
    (last.op = "nested_set" /\ last.err = "") =>
        /\ LayersNow = LayersBefore /\ ~dirty
        /\ dict_get(heap, heap[merged.v].map[last.key].v, NestedKey) = last.val

\* C14: a nested assignment cfg.a.b = v made through a PolyYaco is stored in
\* the Node of the top layer, so that cfg.a.b is still v after a write to
\* another key has forced the merge to be computed again.
C14_NestedWriteKept ==
    /\ (last.op = "nested_set" /\ last.err = "" /\ Len(yacs) >= 1) =>
          FoldAt(<<LayersNow[Len(yacs)]>>, last.key, NestedKey) = last.val
    /\ (prev.op = "nested_set" /\ prev.err = "" /\ last.op = "setattr" /\ last.err = ""
          /\ last.key # prev.key) =>
          FoldAt(LayersNow, prev.key, NestedKey) = prev.val

\* The Node merge() gives when the last call was made, as a structure: the
\* fold of the layers when the cache was dirty, the cached Node when clean.
MergedBefore ==
    IF was.dirty THEN FoldTree(EmptyTree, LayersBefore)
    ELSE TreeOf(was.heap, was.merged)

\* What get(key, default) is to return given the merged Node m.
GetOf(m, key, default) ==
    IF key \in DOMAIN m.v /\ m.v[key] # EmptyTree THEN m.v[key] ELSE default

\* get(key, default) judged on the Node merge() gives: the value merge() has
\* at the key, and the default when it has none or an empty map; no error.
GetReturnsMergedOrDefault ==
    last.op = "get" =>
        /\ last.err = ""
        /\ TreeOf(heap, last.res) = GetOf(MergedBefore, last.key, last.val)

\* C11: get(k, default) returns the merged value of k when it is neither
\* absent nor an empty map, and the default when k is in no layer or its
\* merged value is an empty map; it raises nothing for a missing key.
C11_GetMergedOrDefault ==
    last.op = "get" =>
        /\ last.err = ""
        /\ TreeOf(heap, last.res) = GetOf(MergedBefore, last.key, last.val)
        /\ Defining(LayersBefore, last.key) = {} => last.res = last.val
====
